---- MODULE Spec2Model ----
(***************************************************************************)
(* Redeem-code engine of the storefront server.                            *)
(*                                                                         *)
(*   routes  : src/unnamed/part_007  (POST /api/redeem, admin CRUD)        *)
(*   storage : src/CyberSpectra-1/shared/schema.ts (MemStorage)            *)
(*                                                                         *)
(* A request handler is an async function.  It runs without interruption   *)
(* from one `await` to the next, and other handlers may run at each        *)
(* `await`.  Every action below is one such uninterrupted run.             *)
(*                                                                         *)
(* MemStorage hands out the very objects it keeps in its Map, so a handler *)
(* that holds a record sees later increments of it.  updateRedeemCode puts *)
(* a NEW object into the Map and deleteRedeemCode removes the object; a    *)
(* handler that looked the record up earlier then holds a detached object  *)
(* (live = FALSE, snap = its contents).                                    *)
(***************************************************************************)
EXTENDS Integers, Sequences, FiniteSets, TLC

\* ------------------------------------------------------------------ bounds
MaxCodes == 2
MaxReqs == 3
MaxTime == 2
MaxUsage == 3
MaxLogins == 2
MaxCartQuantity == 3
MaxOrders == 1

\* -------------------------------------------------------- program constants
MaxFieldLen == 100
MaxQuantity == 999

\* ---------------------------------------------------------- optional values
\* A value that may be null or undefined is a set: None, or Some(v).
None == {}
Some(v) == {v}
The(o) == CHOOSE v \in o : TRUE

\* ------------------------------------------------------------------- text
\* A string is a sequence of one-character strings.
IsSpace(c) == c = " "

ToUpperChar(c) ==
  CASE c = "a" -> "A"
    [] c = "b" -> "B"
    [] OTHER -> c

\* variant: the text is looked up as it was typed
ToUpperCase_Identity(s) == s

\* String.prototype.toUpperCase
ToUpperCase(s) == [i \in 1..Len(s) |-> ToUpperChar(s[i])]

RECURSIVE TrimLeft(_)
TrimLeft(s) ==
  IF s # <<>> /\ IsSpace(Head(s)) THEN TrimLeft(Tail(s)) ELSE s

RECURSIVE TrimRight(_)
TrimRight(s) ==
  IF s # <<>> /\ IsSpace(s[Len(s)]) THEN TrimRight(SubSeq(s, 1, Len(s) - 1)) ELSE s

\* express-validator sanitizes a missing field as the empty string
FieldToString(o) == IF o = None THEN <<>> ELSE The(o)

\* body(field).trim()
Trim(o) == TrimRight(TrimLeft(FieldToString(o)))

\* .isLength({ min: 1, max: 100 })
IsLengthOk(s) == Len(s) >= 1 /\ Len(s) <= MaxFieldLen

\* JavaScript truthiness, by the type of the value
TruthyNum(o) == o # None /\ o # Some(0)
TruthyStr(o) == o # None /\ o # Some(<<>>)
TruthyObj(o) == o # None

\* ----------------------------------------------------------------- inputs
\* Product ids: "1" and "2" are seeded products, "9" is no product.
P1 == <<"1">>
P2 == <<"2">>
P9 == <<"9">>

\* Admin create bodies (after zod has stripped unknown keys).  A field that
\* is missing or null is None.
\* The jsonb column `value`: null, or an object that may hold a downloadUrl
\* and a fileName.
Download(url, file) == Some([downloadUrl |-> url, fileName |-> file])
DefaultValue == Download(Some("u0"), Some("f0"))

CreateBody(c, p, m, a, l, e) ==
  [code |-> c, productId |-> p, isMasterCode |-> m, isActive |-> a,
   usageLimit |-> l, expiresAt |-> e, value |-> DefaultValue]

WithValue(body, v) == [body EXCEPT !.value = v]

\* every combination of active flag, limit and expiry for a product code and
\* for a master code, a master code that also names a product, and a body
\* without a code
CreateBodies ==
  { CreateBody(Some(<<"A">>), sc[1], sc[2], a, l, e) :
      sc \in { <<Some(P1), None>>, <<None, Some(TRUE)>> },
      a \in {None, Some(FALSE)},
      l \in {None, Some(2)},
      e \in {None, Some(1)} }
  \cup { CreateBody(Some(<<"A">>), Some(P1), Some(TRUE), None, Some(2), None),
         CreateBody(None, Some(P1), None, None, None, None) }

\* codes that are active and never expire: one master code and one product
\* code per text, one of them with the default limit
BurstBodies ==
  { WithValue(CreateBody(Some(<<"A">>), None, Some(TRUE), None, Some(2), None),
              Download(Some("u1"), Some("f1"))),
    WithValue(CreateBody(Some(<<"A">>), Some(P1), None, None, None, None),
              Download(Some("u2"), None)),
    WithValue(CreateBody(Some(<<"B">>), Some(P1), None, None, Some(2), None),
              None),
    WithValue(CreateBody(Some(<<"B">>), None, Some(TRUE), None, None, None),
              Download(None, Some("f4"))) }

\* Admin update bodies: any subset of fields, no validation
UpdateBodies ==
  { [isActive |-> FALSE], [isActive |-> TRUE], [usageLimit |-> None],
    [usageLimit |-> Some(1)], [usageCount |-> 0] }

\* Redemption request bodies
RedeemCodeInputs ==
  {None, Some(<<"A">>), Some(<<"a">>), Some(<<" ", "a">>), Some(<<"b", " ">>), Some(<<" ">>)}
RedeemProductInputs == {None, Some(P1), Some(P2), Some(P9), Some(<<" ", "1">>)}

BurstCodeInputs == {Some(<<"A">>), Some(<<"b">>)}
BurstProductInputs == {Some(P1), Some(P2)}

\* ------------------------------------------------------------------ state
VARIABLES
  redeemCodes,  \* MemStorage.redeemCodes: id -> record, ids in insertion order
  nextId,       \* ids handed out so far (randomUUID never repeats)
  created,      \* history: id -> the body the record was created from
  now,          \* the clock read by new Date()
  reqs,         \* the POST /api/redeem requests, by arrival order
  admins,       \* MemStorage.admins: the account "admin", once it exists
  session,      \* req.session.admin of the admin's browser
  loginHits,    \* the loginRateLimit window of the admin's browser
  adminRes,     \* the last response to a request of the admin's browser
  logins,       \* the POST /api/admin/login requests waiting for bcrypt
  products,     \* MemStorage.products: the ids of the stored products
  cartItems,    \* MemStorage.cartItems: id -> cart item
  orders,       \* MemStorage.orders, in insertion order
  checkout,     \* the POST /api/orders request between its two awaits
  shopRes       \* the last response to a cart or order request

vars ==
  <<redeemCodes, nextId, created, now, reqs, admins, session, loginHits, adminRes,
    logins, products, cartItems, orders, checkout, shopRes>>

\* the products, carts and orders
shopVars == <<products, cartItems, orders, checkout, shopRes>>

\* what a request of the shop's client leaves alone
authVars == <<admins, session, loginHits, adminRes, logins, shopVars>>

Reqs == 1..MaxReqs

\* A request that has not arrived yet, or that is gone.
\*   raw, rawProductId : the body as sent
\*   code, productId   : req.body after the sanitizers
\*   ref, live, snap   : the handler's redeemCode
\*   at                : history, the clock when the handler made its checks
\*   writes            : history, how often the handler changed the store
\*   payload           : downloadUrl, fileName and codeType of a success
\*   startActive       : history, isActive of the record the lookup found
IdleReq ==
  [pc |-> "idle", raw |-> None, rawProductId |-> None, code |-> <<>>,
   productId |-> <<>>, ref |-> None, live |-> TRUE, snap |-> None,
   res |-> None, at |-> None, writes |-> 0, payload |-> None,
   startActive |-> None]

\* The record a handler holds: the Map's own object, or a detached one.
Deref(q) == IF q.live THEN redeemCodes[The(q.ref)] ELSE The(q.snap)

\* ---------------------------------------------------------------- storage
\* MemStorage.getRedeemCodeByCode: the first record, in insertion order,
\* whose code is exactly the given text.
getRedeemCodeByCode(store, code) ==
  LET hits == { id \in DOMAIN store : store[id].code = code }
  IN IF hits = {} THEN None
     ELSE Some(CHOOSE id \in hits : \A other \in hits : id <= other)

\* MemStorage.createRedeemCode
createRedeemCode(id, insert, t) ==
  [id |-> id,
   code |-> The(insert.code),
   productId |-> IF TruthyStr(insert.productId) THEN insert.productId ELSE None,
   isMasterCode |-> IF insert.isMasterCode = Some(TRUE) THEN TRUE ELSE FALSE,
   isActive |-> IF insert.isActive # None THEN The(insert.isActive) ELSE TRUE,
   usageLimit |-> IF TruthyNum(insert.usageLimit) THEN insert.usageLimit ELSE Some(1),
   usageCount |-> 0,
   expiresAt |-> IF TruthyObj(insert.expiresAt) THEN insert.expiresAt ELSE None,
   value |-> insert.value,
   createdAt |-> t]

\* variant: the increment is made on a copy and never reaches the Map
incrementRedeemCodeUsage_Dropped(store, id) == store

\* variant: the increment reaches every record, not only the one with the id
incrementRedeemCodeUsage_AllRecords(store, id) ==
  [other \in DOMAIN store |-> [store[other] EXCEPT !.usageCount = @ + 1]]

\* MemStorage.incrementRedeemCodeUsage
incrementRedeemCodeUsage(store, id) ==
  IF id \in DOMAIN store
    THEN [store EXCEPT ![id].usageCount = @ + 1]
    ELSE store

\* variant: the update keeps nothing back
updateRedeemCode_Unprotected(rec, updateData) ==
  [f \in DOMAIN rec \cup DOMAIN updateData |->
     IF f \in DOMAIN updateData THEN updateData[f] ELSE rec[f]]

\* MemStorage.updateRedeemCode:
\* { ...redeemCode, ...updateData, id, createdAt: redeemCode.createdAt }
updateRedeemCode(rec, updateData) ==
  [f \in DOMAIN rec \cup DOMAIN updateData |->
     IF f = "id" THEN rec.id
     ELSE IF f = "createdAt" THEN rec.createdAt
     ELSE IF f \in DOMAIN updateData THEN updateData[f]
     ELSE rec[f]]

\* --------------------------------------------------------------- responses
Response(status, success, message) ==
  [status |-> status, success |-> success, message |-> message]

ValidationFailed == Response(400, FALSE, "Validation failed")
MissingFields == Response(400, FALSE, "Code and product ID are required")
NotFound == Response(404, FALSE, "Invalid redeem code. Please check the code and try again.")
\* variant: an inactive code is answered like an unknown one
Inactive_Generic == NotFound
Inactive == Response(400, FALSE, "This code is no longer active.")
Expired == Response(400, FALSE, "This code has expired.")
UsageLimitReached == Response(400, FALSE, "This code has reached its usage limit.")
ScopeMismatch ==
  Response(400, FALSE, "This code is not valid for this product. Use a master code or the correct product-specific code.")
Redeemed == Response(200, TRUE, "Code redeemed successfully!")

\* ------------------------------------------------------- POST /api/redeem
\* redeemValidation: both fields trimmed, then 1..100 characters
redeemValidation(code, productId) == IsLengthOk(code) /\ IsLengthOk(productId)

\* variant: the code expires at expiresAt, not after it
IsExpired_Inclusive(rec, t) == TruthyObj(rec.expiresAt) /\ The(rec.expiresAt) <= t

\* the checks of the handler on the record it holds, in the handler's order
IsExpired(rec, t) == TruthyObj(rec.expiresAt) /\ The(rec.expiresAt) < t

\* variant: off by one, the count may pass the limit
IsUsedUp_OffByOne(rec) ==
  TruthyNum(rec.usageLimit) /\ rec.usageCount > The(rec.usageLimit)

IsUsedUp(rec) ==
  TruthyNum(rec.usageLimit) /\ rec.usageCount >= The(rec.usageLimit)

\* variant: the scope is not checked
isValidForProduct_Always(rec, productId) == TRUE

\* variant: the master flag is ignored
isValidForProduct_BoundOnly(rec, productId) == rec.productId = Some(productId)

isValidForProduct(rec, productId) ==
  rec.isMasterCode \/ rec.productId = Some(productId)

\* variant: the checks without the one of isActive
Rejection_NoActiveCheck(rec, productId, t) ==
  IF IsExpired(rec, t) THEN Some(Expired)
  ELSE IF IsUsedUp(rec) THEN Some(UsageLimitReached)
  ELSE IF ~isValidForProduct(rec, productId) THEN Some(ScopeMismatch)
  ELSE None

\* variant: expiry is checked before the active flag
Rejection_ExpiryFirst(rec, productId, t) ==
  IF IsExpired(rec, t) THEN Some(Expired)
  ELSE IF ~rec.isActive THEN Some(Inactive)
  ELSE IF IsUsedUp(rec) THEN Some(UsageLimitReached)
  ELSE IF ~isValidForProduct(rec, productId) THEN Some(ScopeMismatch)
  ELSE None

\* the rejection the handler sends for the record it holds, None to go on
Rejection(rec, productId, t) ==
  IF ~rec.isActive THEN Some(Inactive)
  ELSE IF IsExpired(rec, t) THEN Some(Expired)
  ELSE IF IsUsedUp(rec) THEN Some(UsageLimitReached)
  ELSE IF ~isValidForProduct(rec, productId) THEN Some(ScopeMismatch)
  ELSE None

\* variant: the increment comes before the checks
StoreAfterChecks_IncrementFirst(store, id, rej) ==
  incrementRedeemCodeUsage(store, id)

\* the store after the checks: the increment comes after the last check
StoreAfterChecks(store, id, rej) ==
  IF rej = None THEN incrementRedeemCodeUsage(store, id) ELSE store

Answer(q, response) == [q EXCEPT !.pc = "done", !.res = Some(response)]

\* variant: the fields are not checked before the lookup
Started_Unchecked(store, rawCode, rawProductId) ==
  LET code == Trim(rawCode)
      productId == Trim(rawProductId)
      q == [IdleReq EXCEPT !.raw = rawCode, !.rawProductId = rawProductId,
                           !.code = code, !.productId = productId]
      found == getRedeemCodeByCode(store, ToUpperCase(code))
  IN [q EXCEPT !.pc = "lookup",
               !.ref = found,
               !.startActive = IF found = None THEN None
                               ELSE Some(store[The(found)].isActive)]

\* The request as it stands after validation, the handler's own field check
\* and the lookup, up to `await storage.getRedeemCodeByCode(...)`.
Started(store, rawCode, rawProductId) ==
  LET code == Trim(rawCode)
      productId == Trim(rawProductId)
      q == [IdleReq EXCEPT !.raw = rawCode, !.rawProductId = rawProductId,
                           !.code = code, !.productId = productId]
  IN IF ~redeemValidation(code, productId) THEN Answer(q, ValidationFailed)
     ELSE IF code = <<>> \/ productId = <<>> THEN Answer(q, MissingFields)
     ELSE LET found == getRedeemCodeByCode(store, ToUpperCase(code)) IN
          [q EXCEPT !.pc = "lookup",
                    !.ref = found,
                    !.startActive = IF found = None THEN None
                                    ELSE Some(store[The(found)].isActive)]

\* The request arrives.  Requests are numbered in the order of arrival.
RedeemStart(r, rawCode, rawProductId) ==
  /\ reqs[r].pc = "idle"
  /\ \A q \in Reqs : q < r => reqs[q].pc # "idle"
  /\ reqs' = [reqs EXCEPT ![r] = Started(redeemCodes, rawCode, rawProductId)]
  /\ UNCHANGED <<redeemCodes, nextId, created, now>>
  /\ UNCHANGED authVars

\* After the lookup: the checks, and the increment up to
\* `await storage.incrementRedeemCodeUsage(...)`.
RedeemCheck(r) ==
  /\ reqs[r].pc = "lookup"
  /\ LET q == [reqs[r] EXCEPT !.at = Some(now)] IN
     IF q.ref = None
       THEN /\ reqs' = [reqs EXCEPT ![r] = Answer(q, NotFound)]
            /\ UNCHANGED redeemCodes
       ELSE LET rej == Rejection(Deref(q), q.productId, now) IN
            /\ redeemCodes' = StoreAfterChecks(redeemCodes, The(q.ref), rej)
            /\ reqs' = [reqs EXCEPT ![r] =
                 LET w == [q EXCEPT !.writes =
                             IF redeemCodes' # redeemCodes THEN @ + 1 ELSE @]
                 IN IF rej # None THEN Answer(w, The(rej))
                    ELSE [w EXCEPT !.pc = "increment"]]
  /\ UNCHANGED <<nextId, created, now>>
  /\ UNCHANGED authVars

\* variant: every success is tagged as a product code
Payload_AlwaysProduct(rec) ==
  [downloadUrl |-> IF rec.value = None THEN None ELSE The(rec.value).downloadUrl,
   fileName |-> IF rec.value = None THEN None ELSE The(rec.value).fileName,
   codeType |-> "product"]

\* The download information of the success response: value?.downloadUrl,
\* value?.fileName and the code type.
Payload(rec) ==
  [downloadUrl |-> IF rec.value = None THEN None ELSE The(rec.value).downloadUrl,
   fileName |-> IF rec.value = None THEN None ELSE The(rec.value).fileName,
   codeType |-> IF rec.isMasterCode THEN "master" ELSE "product"]

\* After the increment: the success response.
RedeemRespond(r) ==
  /\ reqs[r].pc = "increment"
  /\ reqs' = [reqs EXCEPT ![r] =
       [Answer(reqs[r], Redeemed) EXCEPT !.payload = Some(Payload(Deref(reqs[r])))]]
  /\ UNCHANGED <<redeemCodes, nextId, created, now>>
  /\ UNCHANGED authVars

\* The response has been sent and the request is gone.
RedeemForget(r) ==
  /\ reqs[r].pc = "done"
  /\ reqs' = [reqs EXCEPT ![r] = IdleReq]
  /\ UNCHANGED <<redeemCodes, nextId, created, now>>
  /\ UNCHANGED authVars

\* ------------------------------------------- POST /api/admin/redeem-codes
\* insertRedeemCodeSchema.parse: code is a required string
ParseOk(body) == body.code # None

AdminCreate(body) ==
  /\ nextId < MaxCodes
  /\ IF ParseOk(body)
       THEN /\ redeemCodes' =
                 [id \in DOMAIN redeemCodes \cup {nextId + 1} |->
                    IF id = nextId + 1 THEN createRedeemCode(id, body, now)
                    ELSE redeemCodes[id]]
            /\ created' =
                 [id \in DOMAIN created \cup {nextId + 1} |->
                    IF id = nextId + 1 THEN body ELSE created[id]]
            /\ nextId' = nextId + 1
       ELSE UNCHANGED <<redeemCodes, created, nextId>>
  /\ UNCHANGED <<now, reqs>>
  /\ UNCHANGED <<admins, session, loginHits, logins, shopVars>>

\* The handlers that were holding the Map's object of record id now hold a
\* detached object with the contents it had.
Detach(id) ==
  [r \in Reqs |->
     IF reqs[r].ref = Some(id) /\ reqs[r].live /\ reqs[r].pc \in {"lookup", "increment"}
       THEN [reqs[r] EXCEPT !.live = FALSE, !.snap = Some(redeemCodes[id])]
       ELSE reqs[r]]

\* --------------------------------------- PUT /api/admin/redeem-codes/:id
AdminUpdate(id, body) ==
  /\ IF id \in DOMAIN redeemCodes
       THEN /\ redeemCodes' =
                 [redeemCodes EXCEPT ![id] = updateRedeemCode(redeemCodes[id], body)]
            /\ reqs' = Detach(id)
       ELSE UNCHANGED <<redeemCodes, reqs>>
  /\ UNCHANGED <<nextId, created, now>>
  /\ UNCHANGED <<admins, session, loginHits, logins, shopVars>>

\* ------------------------------------ DELETE /api/admin/redeem-codes/:id
\* MemStorage.deleteRedeemCode
deleteRedeemCode(store, id) == [other \in DOMAIN store \ {id} |-> store[other]]

AdminDelete(id) ==
  /\ IF id \in DOMAIN redeemCodes
       THEN /\ redeemCodes' = deleteRedeemCode(redeemCodes, id)
            /\ reqs' = Detach(id)
       ELSE UNCHANGED <<redeemCodes, reqs>>
  /\ UNCHANGED <<nextId, created, now>>
  /\ UNCHANGED <<admins, session, loginHits, logins, shopVars>>

\* --------------------------------------------------------------- products
\* MemStorage.seedProducts: the sample products "1" .. "8", of which the
\* model keeps two, and P9 is the id of no product.
seedProducts == {P1, P2}

\* ------------------------------------------------------------------ cart
\* MemStorage.cartItems is a Map from a random id to the item; no route names
\* an item by its id, so the model keeps the items in the Map's order of
\* insertion and leaves the ids out.
CartItem(sessionId, productId, quantity) ==
  [sessionId |-> sessionId, productId |-> productId, quantity |-> quantity]

\* Array.from(this.cartItems.values()).find(...): the place of the first item
\* of the session with the product, or 0
RECURSIVE FindFrom(_, _, _, _)
FindFrom(items, sessionId, productId, i) ==
  IF i > Len(items) THEN 0
  ELSE IF items[i].sessionId = sessionId /\ items[i].productId = productId THEN i
  ELSE FindFrom(items, sessionId, productId, i + 1)

Find(items, sessionId, productId) == FindFrom(items, sessionId, productId, 1)

\* insertCartItem.quantity || 1
QuantityOr1(quantity) == IF TruthyNum(quantity) THEN The(quantity) ELSE 1

\* variant: an item is added without looking for the one that is there
addToCart_Append(items, insert) ==
  Append(items, CartItem(insert.sessionId, insert.productId, QuantityOr1(insert.quantity)))

\* MemStorage.addToCart
addToCart(items, insert) ==
  LET existingItem == Find(items, insert.sessionId, insert.productId) IN
  IF existingItem # 0
    THEN [items EXCEPT ![existingItem].quantity = @ + QuantityOr1(insert.quantity)]
    ELSE Append(items, CartItem(insert.sessionId, insert.productId, QuantityOr1(insert.quantity)))

\* MemStorage.updateCartItemQuantity: the items, unchanged when none is found
updateCartItemQuantity(items, sessionId, productId, quantity) ==
  LET item == Find(items, sessionId, productId) IN
  IF item # 0 THEN [items EXCEPT ![item].quantity = quantity] ELSE items

\* MemStorage.removeFromCart: the items without the first one found
removeFromCart(items, sessionId, productId) ==
  LET itemToRemove == Find(items, sessionId, productId) IN
  IF itemToRemove # 0
    THEN SubSeq(items, 1, itemToRemove - 1) \o SubSeq(items, itemToRemove + 1, Len(items))
    ELSE items

\* variant: every cart is emptied
clearCart_All(items, sessionId) == <<>>

\* MemStorage.clearCart
clearCart(items, sessionId) ==
  LET Other(item) == item.sessionId # sessionId IN SelectSeq(items, Other)

\* the items of a session, as getCartItems filters them
ItemsOf(items, sessionId) ==
  LET Mine(item) == item.sessionId = sessionId IN SelectSeq(items, Mine)

\* MemStorage.getCartItems throws when the product of an item is not stored
getCartItemsThrows(items, prods, sessionId) ==
  \E i \in 1..Len(items) :
    items[i].sessionId = sessionId /\ items[i].productId \notin prods

\* MemStorage.deleteProduct
deleteProduct(prods, id) == prods \ {id}

\* MemStorage.createOrder
createOrder(ords, insert) ==
  Append(ords, [sessionId |-> The(insert.sessionId), items |-> The(insert.items),
                status |-> IF TruthyStr(insert.status) THEN The(insert.status)
                                                       ELSE <<"p", "e", "n", "d", "i", "n", "g">>])

\* A response to a cart or order request: the route, the status, and the
\* items or the order in the body.
ShopResponse(route, status, data) ==
  Some([route |-> route, status |-> status, data |-> data])

\* cartValidation: sessionId and productId trimmed and of 1..100 characters,
\* quantity an integer from 1 to 999
cartValidation(sessionId, productId, quantity) ==
  /\ IsLengthOk(sessionId)
  /\ IsLengthOk(productId)
  /\ quantity # None /\ The(quantity) >= 1 /\ The(quantity) <= MaxQuantity

\* ---------------------------------------------------------- POST /api/cart
\* The body passes insertCartItemSchema once it has passed cartValidation.
PostCart(body) ==
  LET sessionId == Trim(body.sessionId)
      productId == Trim(body.productId)
  IN
  /\ IF ~cartValidation(sessionId, productId, body.quantity)
       THEN /\ shopRes' = ShopResponse("addToCart", 400, <<>>)
            /\ UNCHANGED cartItems
       ELSE /\ cartItems' = addToCart(cartItems, CartItem(sessionId, productId, body.quantity))
            /\ shopRes' = ShopResponse("addToCart", 201, <<>>)
  /\ UNCHANGED <<products, orders, checkout>>
  /\ UNCHANGED <<redeemCodes, nextId, created, now, reqs, admins, session, loginHits,
                 adminRes, logins>>

\* ------------------------------------ PATCH /api/cart/:sessionId/:productId
\* quantity is the number in the body, or None when the body has none
PatchCart(sessionId, productId, quantity) ==
  /\ IF quantity = None \/ The(quantity) < 1
       THEN /\ shopRes' = ShopResponse("updateCart", 400, <<>>)
            /\ UNCHANGED cartItems
     ELSE IF Find(cartItems, sessionId, productId) = 0
       THEN /\ shopRes' = ShopResponse("updateCart", 404, <<>>)
            /\ UNCHANGED cartItems
     ELSE /\ cartItems' = updateCartItemQuantity(cartItems, sessionId, productId, The(quantity))
          /\ shopRes' = ShopResponse("updateCart", 200, <<>>)
  /\ UNCHANGED <<products, orders, checkout>>
  /\ UNCHANGED <<redeemCodes, nextId, created, now, reqs, admins, session, loginHits,
                 adminRes, logins>>

\* ----------------------------------- DELETE /api/cart/:sessionId/:productId
DeleteCartItem(sessionId, productId) ==
  /\ cartItems' = removeFromCart(cartItems, sessionId, productId)
  /\ shopRes' = IF Find(cartItems, sessionId, productId) = 0
                  THEN ShopResponse("removeFromCart", 404, <<>>)
                  ELSE ShopResponse("removeFromCart", 204, <<>>)
  /\ UNCHANGED <<products, orders, checkout>>
  /\ UNCHANGED <<redeemCodes, nextId, created, now, reqs, admins, session, loginHits,
                 adminRes, logins>>

\* ------------------------------------------- DELETE /api/cart/:sessionId
DeleteCart(sessionId) ==
  /\ cartItems' = clearCart(cartItems, sessionId)
  /\ shopRes' = ShopResponse("clearCart", 204, <<>>)
  /\ UNCHANGED <<products, orders, checkout>>
  /\ UNCHANGED <<redeemCodes, nextId, created, now, reqs, admins, session, loginHits,
                 adminRes, logins>>

\* ---------------------------------------------- GET /api/cart/:sessionId
GetCart(sessionId) ==
  /\ shopRes' = IF getCartItemsThrows(cartItems, products, sessionId)
                  THEN ShopResponse("getCart", 500, <<>>)
                  ELSE ShopResponse("getCart", 200, ItemsOf(cartItems, sessionId))
  /\ UNCHANGED <<products, cartItems, orders, checkout>>
  /\ UNCHANGED <<redeemCodes, nextId, created, now, reqs, admins, session, loginHits,
                 adminRes, logins>>

\* --------------------------------------------------------- POST /api/orders
\* insertOrderSchema: sessionId, total, paymentMethod, billingInfo and items
\* are required, status is not
OrderParseOk(body) ==
  /\ body.sessionId # None
  /\ body.total # None
  /\ body.paymentMethod # None
  /\ body.billingInfo # None
  /\ body.items # None

\* The handler to `await storage.createOrder(order)`.
OrderCreate(body) ==
  /\ checkout = None
  /\ IF ~OrderParseOk(body)
       THEN /\ shopRes' = ShopResponse("createOrder", 400, <<>>)
            /\ UNCHANGED <<orders, checkout>>
       ELSE /\ orders' = createOrder(orders, body)
            /\ checkout' = Some(The(body.sessionId))
            /\ UNCHANGED shopRes
  /\ UNCHANGED <<products, cartItems>>
  /\ UNCHANGED <<redeemCodes, nextId, created, now, reqs, admins, session, loginHits,
                 adminRes, logins>>

\* `await storage.clearCart(order.sessionId)` and the answer
OrderClear ==
  /\ checkout # None
  /\ cartItems' = clearCart(cartItems, The(checkout))
  /\ checkout' = None
  /\ shopRes' = ShopResponse("createOrder", 201, <<>>)
  /\ UNCHANGED <<products, orders>>
  /\ UNCHANGED <<redeemCodes, nextId, created, now, reqs, admins, session, loginHits,
                 adminRes, logins>>

\* ------------------------------------------------------------ admin auth
\* 15 minutes are one tick of the clock: the account lock of 30 minutes, the
\* window of loginRateLimit, its maximum and the failed logins before a lock
LockTicks == 2
WindowTicks == 1
LoginMax == 5
LockAfter == 5

AdminName == <<"a", "d", "m", "i", "n">>
AdminPassword == <<"a", "d", "m", "i", "n", "1", "2", "3">>

\* Login request bodies: the account's name and password, the name padded,
\* a wrong password, an unknown name, a name and a password that are too short
LoginBody(username, password) == [username |-> username, password |-> password]

LoginBodies ==
  { LoginBody(AdminName, AdminPassword),
    LoginBody(<<" ">> \o AdminName, AdminPassword),
    LoginBody(AdminName, <<"s", "e", "c", "r", "e", "t">>),
    LoginBody(<<"r", "o", "o", "t">>, AdminPassword),
    LoginBody(<<"a", "b">>, AdminPassword),
    LoginBody(AdminName, <<"x">>) }

\* bcrypt.hash and bcrypt.compare: the hash of a text is the text behind a
\* marker, and a text fits a hash when it hashes to it
Hash(password) == <<"$">> \o password
Compare(password, hash) == Hash(password) = hash

\* MemStorage.createAdmin, as MemStorage.initializeAdmin calls it
createAdmin(username, password) ==
  [id |-> "admin-uuid", username |-> username, passwordHash |-> Hash(password),
   isActive |-> TRUE, failedLoginAttempts |-> 0, lockedUntil |-> None]

\* The timer of MemStorage.initializeAdmin fires.
InitializeAdmin ==
  /\ admins = None
  /\ admins' = Some(createAdmin(AdminName, AdminPassword))
  /\ UNCHANGED <<redeemCodes, nextId, created, now, reqs, session, loginHits, adminRes,
               logins, shopVars>>

\* MemStorage.getAdminByUsername
getAdminByUsername(adms, username) ==
  IF adms # None /\ The(adms).username = username THEN adms ELSE None

\* variant: no account ever counts as locked
IsLocked_Never(admin, t) == FALSE

\* admin.lockedUntil && admin.lockedUntil > new Date()
IsLocked(admin, t) == admin.lockedUntil # None /\ The(admin.lockedUntil) > t

\* MemStorage.updateAdminLoginAttempts
updateAdminLoginAttempts(admin, attempts, lockedUntil) ==
  [admin EXCEPT !.failedLoginAttempts = attempts, !.lockedUntil = lockedUntil]

\* variant: a successful login leaves the count and the lock in place
updateAdminLastLogin_KeepCount(admin) == admin

\* MemStorage.updateAdminLastLogin
updateAdminLastLogin(admin) ==
  [admin EXCEPT !.failedLoginAttempts = 0, !.lockedUntil = None]

\* req.session.admin = {}
EmptySession == Some([isAuthenticated |-> None, adminId |-> None, username |-> None])

\* the session of a successful login
LoginSession(admin) ==
  Some([isAuthenticated |-> Some(TRUE), adminId |-> Some(admin.id),
        username |-> Some(admin.username)])

\* session?.isAuthenticated && session.adminId
IsAuthenticated(sess) ==
  /\ sess # None
  /\ The(sess).isAuthenticated = Some(TRUE)
  /\ TruthyObj(The(sess).adminId)

\* A response to the admin's browser: the route, the status and the ids of
\* the redeem codes in the body.
AdminResponse(route, status, data) ==
  Some([route |-> route, status |-> status, data |-> data])

\* loginRateLimit: the window after one more request at time t.  Counts
\* above the maximum are all alike.
Hit(hits, t) ==
  IF hits = None \/ t >= The(hits).resetTime
    THEN [count |-> 1, resetTime |-> t + WindowTicks]
    ELSE [The(hits) EXCEPT !.count = IF @ > LoginMax THEN @ ELSE @ + 1]

\* body('username').trim().isLength(3, 50), body('password').isLength(6, 100)
loginValidation(username, password) ==
  /\ Len(username) >= 3 /\ Len(username) <= 50
  /\ Len(password) >= 6 /\ Len(password) <= 100

\* ------------------------------------------------- POST /api/admin/login
\* The map loginAttempts that the handler also writes is read by no route.
\* The handler gives way once, at `await bcrypt.compare`: a request is taken
\* in by LoginStart and answered by LoginFinish.
Logins == 1..MaxLogins

IdleLogin == [pc |-> "idle", password |-> None]

\* The middlewares loginRateLimit and loginValidation, and the handler down to
\* the call of bcrypt.compare.
LoginStart(l, rawName, password) ==
  LET hits == Hit(loginHits, now)
      username == TrimRight(TrimLeft(rawName))
      found == getAdminByUsername(admins, username)
  IN
  /\ logins[l].pc = "idle"
  /\ loginHits' = Some(hits)
  /\ IF hits.count > LoginMax
       THEN adminRes' = AdminResponse("login", 429, {}) /\ UNCHANGED logins
     ELSE IF ~loginValidation(username, password)
       THEN adminRes' = AdminResponse("login", 400, {}) /\ UNCHANGED logins
     ELSE IF found = None
       THEN adminRes' = AdminResponse("login", 401, {}) /\ UNCHANGED logins
     ELSE IF IsLocked(The(found), now)
       THEN adminRes' = AdminResponse("login", 423, {}) /\ UNCHANGED logins
     ELSE IF ~The(found).isActive
       THEN adminRes' = AdminResponse("login", 401, {}) /\ UNCHANGED logins
     ELSE /\ logins' = [logins EXCEPT ![l] = [pc |-> "compare", password |-> Some(password)]]
          /\ UNCHANGED adminRes
  /\ UNCHANGED <<redeemCodes, nextId, created, now, reqs, admins, session, shopVars>>

\* bcrypt.compare has answered.  `admin` is the object of the Map, so the
\* handler reads the failedLoginAttempts of this moment.
LoginFinish(l) ==
  LET admin == The(admins)
      password == The(logins[l].password)
  IN
  /\ logins[l].pc = "compare"
  /\ logins' = [logins EXCEPT ![l] = IdleLogin]
  /\ IF ~Compare(password, admin.passwordHash)
       THEN LET newAttempts == admin.failedLoginAttempts + 1
                lockedUntil == IF newAttempts >= LockAfter
                                 THEN Some(now + LockTicks) ELSE None
            IN /\ admins' = Some(updateAdminLoginAttempts(admin, newAttempts, lockedUntil))
               /\ adminRes' = AdminResponse("login", 401, {})
               /\ UNCHANGED session
       ELSE /\ admins' = Some(updateAdminLastLogin(admin))
            /\ session' = LoginSession(admin)
            /\ adminRes' = AdminResponse("login", 200, {})
  /\ UNCHANGED <<redeemCodes, nextId, created, now, reqs, loginHits, shopVars>>

\* ------------------------------------------------ POST /api/admin/logout
AdminLogout ==
  /\ session' = EmptySession
  /\ adminRes' = AdminResponse("logout", 200, {})
  /\ UNCHANGED <<redeemCodes, nextId, created, now, reqs, admins, loginHits,
                      logins, shopVars>>

\* variant: the middleware does not look at lockedUntil
requireAdmin_NoLockCheck(sess, adms, t) ==
  IF ~IsAuthenticated(sess)
    THEN [status |-> Some(401), session |-> sess]
  ELSE IF ~TruthyObj(The(sess).username)
    THEN [status |-> Some(401), session |-> EmptySession]
  ELSE LET found == getAdminByUsername(adms, The(The(sess).username)) IN
    IF found = None \/ ~The(found).isActive
      THEN [status |-> Some(401), session |-> EmptySession]
    ELSE [status |-> None, session |-> sess]

\* variant: the middleware lets every request pass
requireAdmin_Open(sess, adms, t) == [status |-> None, session |-> sess]

\* requireAdmin: the status of its rejection, or None when it calls next(),
\* and the session it leaves.
requireAdmin(sess, adms, t) ==
  IF ~IsAuthenticated(sess)
    THEN [status |-> Some(401), session |-> sess]
  ELSE IF ~TruthyObj(The(sess).username)
    THEN [status |-> Some(401), session |-> EmptySession]
  ELSE LET found == getAdminByUsername(adms, The(The(sess).username)) IN
    IF found = None \/ ~The(found).isActive
      THEN [status |-> Some(401), session |-> EmptySession]
    ELSE IF IsLocked(The(found), t)
      THEN [status |-> Some(423), session |-> EmptySession]
    ELSE [status |-> None, session |-> sess]

\* A route behind requireAdmin: the middleware's rejection, or the handler.
Guarded(route, handler) ==
  LET gate == requireAdmin(session, admins, now) IN
  IF gate.status # None
    THEN /\ adminRes' = AdminResponse(route, The(gate.status), {})
         /\ session' = gate.session
         /\ UNCHANGED <<redeemCodes, nextId, created, now, reqs, admins, loginHits,
                      logins, shopVars>>
    ELSE handler

\* MemStorage.getRedeemCodes
getRedeemCodes(store) == DOMAIN store

\* MemStorage.getRedeemCodesByProduct
getRedeemCodesByProduct(store, productId) ==
  { id \in DOMAIN store : store[id].productId = Some(productId) }

\* MemStorage.getMasterRedeemCodes
getMasterRedeemCodes(store) == { id \in DOMAIN store : store[id].isMasterCode = TRUE }

\* a handler that only reads
Reads(route, data) ==
  /\ adminRes' = AdminResponse(route, 200, data)
  /\ UNCHANGED <<redeemCodes, nextId, created, now, reqs, admins, session, loginHits,
               logins, shopVars>>

\* -------------------------------------------- GET /api/admin/redeem-codes
ListRedeemCodes == Guarded("list", Reads("list", getRedeemCodes(redeemCodes)))

\* ------------------------- GET /api/admin/redeem-codes/product/:productId
ListRedeemCodesByProduct(productId) ==
  Guarded("listByProduct",
          Reads("listByProduct", getRedeemCodesByProduct(redeemCodes, productId)))

\* ------------------------------------- GET /api/admin/redeem-codes/master
ListMasterRedeemCodes ==
  Guarded("listMaster", Reads("listMaster", getMasterRedeemCodes(redeemCodes)))

\* POST /api/admin/redeem-codes behind requireAdmin: 201 with the new record,
\* or 400 when the body does not parse.
PostRedeemCode(body) ==
  Guarded("create",
    /\ AdminCreate(body)
    /\ adminRes' = IF ParseOk(body)
                     THEN AdminResponse("create", 201, {nextId + 1})
                     ELSE AdminResponse("create", 400, {}))

\* PUT /api/admin/redeem-codes/:id behind requireAdmin: 200 with the updated
\* record, or 404.
PutRedeemCode(id, body) ==
  Guarded("update",
    /\ AdminUpdate(id, body)
    /\ adminRes' = IF id \in DOMAIN redeemCodes
                     THEN AdminResponse("update", 200, {id})
                     ELSE AdminResponse("update", 404, {}))

\* DELETE /api/admin/redeem-codes/:id behind requireAdmin: 200, or 404.
DeleteRedeemCode(id) ==
  Guarded("delete",
    /\ AdminDelete(id)
    /\ adminRes' = IF id \in DOMAIN redeemCodes
                     THEN AdminResponse("delete", 200, {})
                     ELSE AdminResponse("delete", 404, {}))

\* ------------------------------------------ DELETE /api/admin/products/:id
\* the handler, for an admin who is signed in
AdminDeleteProduct(id) ==
  /\ products' = deleteProduct(products, id)
  /\ adminRes' = IF id \in products
                   THEN AdminResponse("deleteProduct", 200, {})
                   ELSE AdminResponse("deleteProduct", 404, {})
  /\ UNCHANGED <<cartItems, orders, checkout, shopRes>>
  /\ UNCHANGED <<redeemCodes, nextId, created, now, reqs, admins, session, loginHits, logins>>

\* ------------------------------------------------------------------ clock
Tick ==
  /\ now < MaxTime
  /\ now' = now + 1
  /\ UNCHANGED <<redeemCodes, nextId, created, reqs>>
  /\ UNCHANGED authVars

\* ---------------------------------------------------------- specification
Init ==
  /\ redeemCodes = <<>>
  /\ nextId = 0
  /\ created = <<>>
  /\ now = 0
  /\ reqs = [r \in Reqs |-> IdleReq]
  /\ admins = None
  /\ session = None
  /\ loginHits = None
  /\ adminRes = None
  /\ logins = [l \in Logins |-> IdleLogin]
  /\ products = seedProducts
  /\ cartItems = <<>>
  /\ orders = <<>>
  /\ checkout = None
  /\ shopRes = None

\* The signed-in admin creates codes, then requests for them arrive in a
\* burst and run concurrently; no admin edits of existing codes.
NextRedeem ==
  \/ \E body \in BurstBodies :
       /\ \A r \in Reqs : reqs[r].pc = "idle"
       /\ AdminCreate(body)
       /\ UNCHANGED adminRes
  \/ \E r \in Reqs, c \in BurstCodeInputs, p \in BurstProductInputs : RedeemStart(r, c, p)
  \/ \E r \in Reqs : RedeemCheck(r)
  \/ \E r \in Reqs : RedeemRespond(r)

SpecRedeem == Init /\ [][NextRedeem]_vars

\* One client that sends one redemption after the other, against codes of
\* every shape that the admin creates between two redemptions at the start of
\* the day, while the clock advances.
NextEval ==
  \/ \E body \in CreateBodies :
       /\ reqs[1].pc = "idle"
       /\ now = 0
       /\ AdminCreate(body)
       /\ UNCHANGED adminRes
  \/ \E c \in RedeemCodeInputs, p \in RedeemProductInputs : RedeemStart(1, c, p)
  \/ RedeemCheck(1)
  \/ RedeemRespond(1)
  \/ RedeemForget(1)
  \/ Tick

SpecEval == Init /\ [][NextEval]_vars

\* One client that sends one redemption after the other, while an admin
\* creates, edits and deletes codes, also between the steps of a redemption.
Next ==
  \/ \E body \in BurstBodies : AdminCreate(body) /\ UNCHANGED adminRes
  \/ \E id \in 1..MaxCodes, body \in UpdateBodies :
       AdminUpdate(id, body) /\ UNCHANGED adminRes
  \/ \E id \in 1..MaxCodes : AdminDelete(id) /\ UNCHANGED adminRes
  \/ \E c \in BurstCodeInputs, p \in BurstProductInputs :
       /\ \A id \in DOMAIN redeemCodes : redeemCodes[id].usageCount < MaxUsage
       /\ RedeemStart(1, c, p)
  \/ RedeemCheck(1)
  \/ RedeemRespond(1)
  \/ RedeemForget(1)

Spec == Init /\ [][Next]_vars

\* The signed-in admin creates, edits and deletes codes with bodies of every
\* kind, while one client sends one redemption after the other.
\*   create: a plain product code, the same text in lower case, a master code
\*   that names a product, a code without scope and with limit 0, a master
\*   code with a negative limit, a body without a code
AdminBodies ==
  { CreateBody(Some(<<"A">>), Some(P1), None, None, Some(2), None),
    CreateBody(Some(<<"a">>), Some(P1), None, None, Some(2), None),
    CreateBody(Some(<<"A">>), Some(P1), Some(TRUE), None, Some(2), None),
    CreateBody(Some(<<"B">>), None, None, None, Some(0), None),
    CreateBody(Some(<<"B">>), None, Some(TRUE), None, Some(-1), None),
    CreateBody(None, Some(P1), None, None, None, None) }

\*   update: the count, the limit (lower, zero), the code text, the scope
AdminUpdateBodies ==
  { [usageCount |-> 0], [usageLimit |-> Some(1)], [usageLimit |-> Some(0)],
    [code |-> <<"b">>], [isMasterCode |-> TRUE] }

NextAdmin ==
  \/ \E body \in AdminBodies : AdminCreate(body) /\ UNCHANGED adminRes
  \/ \E id \in 1..MaxCodes, body \in AdminUpdateBodies :
       AdminUpdate(id, body) /\ UNCHANGED adminRes
  \/ \E id \in 1..MaxCodes : AdminDelete(id) /\ UNCHANGED adminRes
  \/ \E c \in BurstCodeInputs :
       /\ \A id \in DOMAIN redeemCodes : redeemCodes[id].usageCount < MaxUsage
       /\ RedeemStart(1, c, Some(P1))
  \/ RedeemCheck(1)
  \/ RedeemRespond(1)
  \/ RedeemForget(1)

SpecAdmin == Init /\ [][NextAdmin]_vars

\* The signed-in admin switches codes off and on, edits and deletes them,
\* also between the steps of a redemption, while one client sends one
\* redemption after the other.
\*   create: an active product code and a master code that starts inactive
ToggleBodies ==
  { CreateBody(Some(<<"A">>), Some(P1), None, None, Some(2), None),
    CreateBody(Some(<<"B">>), None, Some(TRUE), Some(FALSE), None, None) }

ToggleUpdateBodies ==
  { [isActive |-> FALSE], [isActive |-> TRUE], [usageLimit |-> None] }

NextToggle ==
  \/ \E body \in ToggleBodies : AdminCreate(body) /\ UNCHANGED adminRes
  \/ \E id \in 1..MaxCodes, body \in ToggleUpdateBodies :
       AdminUpdate(id, body) /\ UNCHANGED adminRes
  \/ \E id \in 1..MaxCodes : AdminDelete(id) /\ UNCHANGED adminRes
  \/ \E c \in BurstCodeInputs :
       /\ \A id \in DOMAIN redeemCodes : redeemCodes[id].usageCount < MaxUsage
       /\ RedeemStart(1, c, Some(P1))
  \/ RedeemCheck(1)
  \/ RedeemRespond(1)
  \/ RedeemForget(1)

SpecToggle == Init /\ [][NextToggle]_vars

\* The repository on its own: its callers create, update, delete and
\* increment in any order.
IncrementUsage(id) ==
  /\ id \in DOMAIN redeemCodes
  /\ redeemCodes[id].usageCount < MaxUsage
  /\ redeemCodes' = incrementRedeemCodeUsage(redeemCodes, id)
  /\ UNCHANGED <<nextId, created, now, reqs>>
  /\ UNCHANGED authVars

NextStorage ==
  \/ \E body \in BurstBodies : AdminCreate(body) /\ UNCHANGED adminRes
  \/ \E id \in 1..MaxCodes, body \in UpdateBodies :
       AdminUpdate(id, body) /\ UNCHANGED adminRes
  \/ \E id \in 1..MaxCodes : AdminDelete(id) /\ UNCHANGED adminRes
  \/ \E id \in 1..MaxCodes : IncrementUsage(id)

SpecStorage == Init /\ [][NextStorage]_vars

\* The admin signs in once and creates, edits and deletes codes through the
\* routes, with update bodies that name an id or a createdAt, while one client
\* sends one redemption after the other.
FrameBodies == { CreateBody(Some(<<"A">>), Some(P1), None, None, Some(2), None) }

FrameUpdateBodies ==
  { [id |-> 9, createdAt |-> 7],
    [id |-> 9, isActive |-> FALSE],
    [createdAt |-> 7, usageLimit |-> Some(3)] }

NextFrame ==
  \/ InitializeAdmin
  \/ session = None /\ loginHits = None /\ LoginStart(1, AdminName, AdminPassword)
  \/ LoginFinish(1)
  \/ \E body \in FrameBodies : PostRedeemCode(body)
  \/ \E id \in 1..MaxCodes, body \in FrameUpdateBodies : PutRedeemCode(id, body)
  \/ \E id \in 1..MaxCodes : DeleteRedeemCode(id)
  \/ \E c \in BurstCodeInputs :
       /\ \A id \in DOMAIN redeemCodes : redeemCodes[id].usageCount < MaxUsage
       /\ RedeemStart(1, c, Some(P1))
  \/ RedeemCheck(1)
  \/ RedeemRespond(1)
  \/ RedeemForget(1)

SpecFrame == Init /\ [][NextFrame]_vars

\* The admin's browser: signing in and out, and the six redeem-code routes
\* behind requireAdmin, while the clock advances.  Codes are created at the
\* start of the day.
AuthBodies ==
  { CreateBody(Some(<<"A">>), Some(P1), None, None, None, None),
    CreateBody(None, None, Some(TRUE), None, None, None) }

AuthUpdateBodies == { [isActive |-> FALSE] }

NextAuth ==
  \/ InitializeAdmin
  \/ \E body \in LoginBodies : LoginStart(1, body.username, body.password)
  \/ LoginFinish(1)
  \/ AdminLogout
  \/ ListRedeemCodes
  \/ \E productId \in {P1, P2} : ListRedeemCodesByProduct(productId)
  \/ ListMasterRedeemCodes
  \/ \E body \in AuthBodies : now = 0 /\ PostRedeemCode(body)
  \/ \E id \in 1..MaxCodes, body \in AuthUpdateBodies : PutRedeemCode(id, body)
  \/ \E id \in 1..MaxCodes : DeleteRedeemCode(id)
  \/ Tick

SpecAuth == Init /\ [][NextAuth]_vars

\* Signing in: the login requests of one browser, two of which may wait for
\* bcrypt at a time, its sign-out and one route behind requireAdmin, while the
\* clock advances.
NextLogin ==
  \/ InitializeAdmin
  \/ \E l \in Logins, body \in LoginBodies : LoginStart(l, body.username, body.password)
  \/ \E l \in Logins : LoginFinish(l)
  \/ AdminLogout
  \/ ListRedeemCodes
  \/ Tick

SpecLogin == Init /\ [][NextLogin]_vars

\* The visitors of the shop, by the session ids their browsers send
S1 == <<"s", "1">>
S2 == <<"s", "2">>

CartBody(sessionId, productId, quantity) ==
  [sessionId |-> sessionId, productId |-> productId, quantity |-> quantity]

\* Bodies of POST /api/cart: one and two of a product, the product that is not
\* stored, the other visitor, a padded session id, and bodies without a
\* quantity, with the quantity 0 and without a session id
CartBodies ==
  { CartBody(Some(S1), Some(P1), Some(1)),
    CartBody(Some(S1), Some(P1), Some(2)),
    CartBody(Some(S1), Some(P9), Some(1)),
    CartBody(Some(S2), Some(P1), Some(1)),
    CartBody(Some(<<" ">> \o S1), Some(P1), Some(1)),
    CartBody(Some(S1), Some(P1), None),
    CartBody(Some(S1), Some(P1), Some(0)),
    CartBody(None, Some(P1), Some(1)) }

\* the carts the requests name
CartKeys == { <<S1, P1>>, <<S1, P9>>, <<S2, P1>>, <<S2, P9>> }

OrderBody(sessionId, items, status) ==
  [sessionId |-> sessionId, total |-> Some(<<"1">>), paymentMethod |-> Some(<<"c">>),
   billingInfo |-> Some(<<"b">>), items |-> items, status |-> status]

\* Bodies of POST /api/orders: an order of each visitor, one with a status,
\* one whose session id is padded, one without session id and one without
\* items
OrderBodies ==
  { OrderBody(Some(S1), Some(<<P1>>), None),
    OrderBody(Some(S2), Some(<<P1>>), Some(<<"p", "a", "i", "d">>)),
    OrderBody(Some(<<" ">> \o S1), Some(<<P1>>), None),
    OrderBody(None, Some(<<P1>>), None),
    OrderBody(Some(S1), None, None) }

\* no item of the cart is above the bound on quantities
Small(items) == \A i \in 1..Len(items) : items[i].quantity <= MaxCartQuantity

\* The carts: the visitors fill, change, empty and fetch their carts while
\* the signed-in admin deletes products.
NextCart ==
  \/ \E body \in CartBodies : PostCart(body) /\ Small(cartItems')
  \/ \E key \in CartKeys, quantity \in {None, Some(0), Some(2)} :
       PatchCart(key[1], key[2], quantity)
  \/ \E key \in CartKeys : DeleteCartItem(key[1], key[2])
  \/ \E sessionId \in {S1, S2} : DeleteCart(sessionId)
  \/ \E sessionId \in {S1, S2} : GetCart(sessionId)
  \/ \E id \in {P1, P9} : AdminDeleteProduct(id)

SpecCart == Init /\ [][NextCart]_vars

\* The checkout: the visitors fill their carts and place orders.
NextOrder ==
  \/ \E body \in CartBodies : PostCart(body) /\ Small(cartItems')
  \/ \E sessionId \in {S1, S2} : DeleteCart(sessionId)
  \/ \E body \in OrderBodies : Len(orders) < MaxOrders /\ OrderCreate(body)
  \/ OrderClear

SpecOrder == Init /\ [][NextOrder]_vars

\* ================================================================ claims
\* the requests that matched record id
Matched(id) == { r \in Reqs : reqs[r].ref = Some(id) }

\* ... and were, or are about to be, answered with success
Succeeded(id) ==
  { r \in Matched(id) : reqs[r].pc = "increment" \/ reqs[r].res = Some(Redeemed) }

\* ... and were answered with the usage-limit rejection
LimitRejected(id) == { r \in Matched(id) : reqs[r].res = Some(UsageLimitReached) }

\* request r makes its checks in this step
Checks(r) == reqs[r].pc = "lookup" /\ reqs'[r].pc # "lookup"

\* request r is answered with a rejection in this step
RejectedNow(r) ==
  /\ reqs[r].res = None
  /\ reqs'[r].res # None
  /\ reqs'[r].res # Some(Redeemed)

\* request r is accepted in this step: it goes on to the increment
AcceptedNow(r) == reqs[r].pc = "lookup" /\ reqs'[r].pc = "increment"

\* C1: a code with usage limit N >= 1 is never counted beyond N and never has
\* more than N successful redemptions, however the concurrent requests for it
\* interleave.
C1_UsageCap ==
  \A id \in DOMAIN redeemCodes :
    LET rec == redeemCodes[id] IN
    (rec.usageLimit # None /\ The(rec.usageLimit) >= 1) =>
      /\ rec.usageCount <= The(rec.usageLimit)
      /\ Cardinality(Succeeded(id)) <= The(rec.usageLimit)

\* more requests than the limit were made for one code, and the limit is used up
C1_Witness ==
  \E id \in DOMAIN redeemCodes :
    /\ redeemCodes[id].usageLimit = Some(2)
    /\ redeemCodes[id].usageCount = 2
    /\ Cardinality(Matched(id)) = MaxReqs
    /\ \E r \in Matched(id) : reqs[r].pc = "lookup"

\* C2: when all K requests were made for one active, unexpired code with
\* limit N <= K, each against a product the code is valid for, then once all
\* are answered exactly N succeeded, the other K - N got the usage-limit
\* rejection, and the count is N.
C2_ExactlyLimitSucceed ==
  \A id \in DOMAIN redeemCodes :
    LET rec == redeemCodes[id]
        N == The(rec.usageLimit)
    IN ( /\ rec.usageLimit # None /\ N >= 1 /\ N <= MaxReqs
         /\ rec.isActive /\ rec.expiresAt = None
         /\ \A r \in Reqs :
              /\ reqs[r].pc = "done"
              /\ reqs[r].ref = Some(id)
              /\ (rec.isMasterCode \/ rec.productId = Some(reqs[r].productId)) )
       => /\ Cardinality(Succeeded(id)) = N
          /\ Cardinality(LimitRejected(id)) = MaxReqs - N
          /\ rec.usageCount = N

\* all requests went for one code with limit 2, in scope, and all are answered
C2_Witness ==
  \E id \in DOMAIN redeemCodes :
    /\ redeemCodes[id].usageLimit = Some(2)
    /\ \A r \in Reqs :
         /\ reqs[r].pc = "done"
         /\ reqs[r].ref = Some(id)
         /\ ( \/ redeemCodes[id].isMasterCode
              \/ redeemCodes[id].productId = Some(reqs[r].productId) )
    /\ Cardinality(LimitRejected(id)) = MaxReqs - 2

\* C3: the step that answers a request with a rejection leaves the store as
\* it was, and the rejected request has never written to the store.
C3_RejectionLeavesStore ==
  [][\A r \in Reqs :
       RejectedNow(r) => redeemCodes' = redeemCodes /\ reqs'[r].writes = 0]_vars

\* a code was redeemed once before it expired, and a later request was
\* rejected as expired
C3_Witness ==
  \E r \in Reqs, id \in DOMAIN redeemCodes :
    /\ reqs[r].res = Some(Expired)
    /\ reqs[r].ref = Some(id)
    /\ redeemCodes[id].usageCount = 1

\* C4: a request that changes the store adds exactly 1 to the usageCount of
\* the record it matched and changes nothing else, and a request is answered
\* with success after exactly one such change.
C4_SuccessIncrementsOnce ==
  [][\A r \in Reqs :
       /\ reqs'[r].writes # reqs[r].writes =>
            /\ reqs'[r].writes = reqs[r].writes + 1
            /\ redeemCodes' =
                 [redeemCodes EXCEPT ![The(reqs[r].ref)].usageCount = @ + 1]
       /\ (reqs[r].res = None /\ reqs'[r].res = Some(Redeemed)) =>
            /\ reqs'[r].writes = 1
            /\ redeemCodes' = redeemCodes]_vars

\* a master code with limit 2: redeemed against two different products, and
\* the third redemption rejected as usage-limit-reached
C4_Witness ==
  \E id \in DOMAIN redeemCodes :
    /\ redeemCodes[id].isMasterCode
    /\ redeemCodes[id].usageLimit = Some(2)
    /\ redeemCodes[id].usageCount = 2
    /\ reqs[1].ref = Some(id) /\ reqs[1].res = Some(Redeemed) /\ reqs[1].productId = P1
    /\ reqs[2].ref = Some(id) /\ reqs[2].res = Some(Redeemed) /\ reqs[2].productId = P2
    /\ reqs[3].ref = Some(id) /\ reqs[3].res = Some(UsageLimitReached)
    /\ DOMAIN redeemCodes # {id}

\* The decision procedure as specified: the first failing check, in the order
\* NotFound, Inactive, Expired, UsageLimitReached, ScopeMismatch.
FirstFailing(q, t) ==
  IF q.ref = None THEN "NotFound"
  ELSE LET rec == Deref(q) IN
       IF ~rec.isActive THEN "Inactive"
       ELSE IF rec.expiresAt # None /\ t > The(rec.expiresAt) THEN "Expired"
       ELSE IF rec.usageLimit # None /\ rec.usageCount >= The(rec.usageLimit)
         THEN "UsageLimitReached"
       ELSE IF rec.isMasterCode \/ rec.productId = Some(q.productId) THEN "Accept"
       ELSE "ScopeMismatch"

\* what the handler decided in the state after its checks
Decided(q) ==
  IF q.pc = "increment" THEN "Accept"
  ELSE CASE q.res = Some(NotFound) -> "NotFound"
         [] q.res = Some(Inactive) -> "Inactive"
         [] q.res = Some(Expired) -> "Expired"
         [] q.res = Some(UsageLimitReached) -> "UsageLimitReached"
         [] q.res = Some(ScopeMismatch) -> "ScopeMismatch"
         [] OTHER -> "other"

\* C5: the handler's decision is the first failing check in the order
\* NotFound, Inactive, Expired, UsageLimitReached, ScopeMismatch; an inactive
\* and expired code reports Inactive, an expired code redeemed against the
\* wrong product reports Expired.
C5_FixedCheckOrder ==
  [][\A r \in Reqs :
       Checks(r) =>
         /\ Decided(reqs'[r]) = FirstFailing(reqs[r], now)
         /\ reqs[r].ref # None =>
              LET rec == Deref(reqs[r])
                  expired == rec.expiresAt # None /\ now > The(rec.expiresAt)
              IN /\ (~rec.isActive /\ expired) => reqs'[r].res = Some(Inactive)
                 /\ ( /\ rec.isActive /\ expired
                      /\ ~rec.isMasterCode /\ rec.productId # Some(reqs[r].productId) )
                    => reqs'[r].res = Some(Expired)]_vars

\* an expired code was redeemed against the wrong product and reported expired
C5_Witness ==
  \E r \in Reqs :
    /\ reqs[r].res = Some(Expired)
    /\ reqs[r].productId = P2
    /\ LET rec == redeemCodes[The(reqs[r].ref)]
       IN ~rec.isMasterCode /\ rec.productId = Some(P1)

\* C6: a redemption of a code bound to one product against another product is
\* never accepted and changes no usageCount; if the code is active, unexpired
\* and under its limit the rejection is the scope mismatch.
C6_ScopeEnforced ==
  [][\A r \in Reqs :
       ( /\ Checks(r) /\ reqs[r].ref # None
         /\ ~Deref(reqs[r]).isMasterCode
         /\ Deref(reqs[r]).productId # None
         /\ Deref(reqs[r]).productId # Some(reqs[r].productId) )
       => LET rec == Deref(reqs[r]) IN
          /\ reqs'[r].pc = "done"
          /\ reqs'[r].res # Some(Redeemed)
          /\ redeemCodes' = redeemCodes
          /\ ( /\ rec.isActive
               /\ ~(rec.expiresAt # None /\ now > The(rec.expiresAt))
               /\ ~(rec.usageLimit # None /\ rec.usageCount >= The(rec.usageLimit)) )
             => reqs'[r].res = Some(ScopeMismatch)]_vars

\* a code bound to product 1 was redeemed against product 2 and rejected for
\* its scope
C6_Witness ==
  \E r \in Reqs :
    /\ reqs[r].res = Some(ScopeMismatch)
    /\ reqs[r].productId = P2
    /\ redeemCodes[The(reqs[r].ref)].productId = Some(P1)
    /\ redeemCodes[The(reqs[r].ref)].usageCount = 0

\* C7: a master code that is active, unexpired and under its limit is
\* accepted whatever product id the request names and whatever productId
\* the record has.
C7_MasterUniversal ==
  [][\A r \in Reqs :
       ( /\ Checks(r) /\ reqs[r].ref # None
         /\ Deref(reqs[r]).isMasterCode
         /\ Deref(reqs[r]).isActive
         /\ ~(Deref(reqs[r]).expiresAt # None /\ now > The(Deref(reqs[r]).expiresAt))
         /\ ~(Deref(reqs[r]).usageLimit # None
              /\ Deref(reqs[r]).usageCount >= The(Deref(reqs[r]).usageLimit)) )
       => /\ AcceptedNow(r)
          /\ redeemCodes' =
               [redeemCodes EXCEPT ![The(reqs[r].ref)].usageCount = @ + 1]]_vars

\* a master code that names product 1 was redeemed against an id that is no
\* product
C7_Witness ==
  \E r \in Reqs :
    /\ reqs[r].res = Some(Redeemed)
    /\ reqs[r].productId = P9
    /\ redeemCodes[The(reqs[r].ref)].isMasterCode
    /\ redeemCodes[The(reqs[r].ref)].productId = Some(P1)

\* two characters that differ at most in case
SameLetter(c, d) == c = d \/ {c, d} = {"a", "A"} \/ {c, d} = {"b", "B"}

\* text t is s in some letter case, with blanks around it
VariantOf(t, s) ==
  \E i \in 1..(Len(t) + 1), j \in 0..Len(t) :
    /\ j - i + 1 = Len(s)
    /\ \A k \in 1..Len(s) : SameLetter(t[i + k - 1], s[k])
    /\ \A k \in 1..Len(t) : (k < i \/ k > j) => t[k] = " "

IsUpperText(s) == \A k \in 1..Len(s) : s[k] \notin {"a", "b", " "}

\* request r arrives in this step
StartsNow(r) == reqs[r].pc = "idle" /\ reqs'[r].pc # "idle"

\* C8: a request whose code text is a stored upper-case code in any letter
\* case, with or without surrounding blanks, is handled as the request that
\* sends the stored text itself: same validation result, same record found.
C8_CaseInsensitive ==
  [][\A r \in Reqs, id \in DOMAIN redeemCodes :
       LET s == redeemCodes[id].code
           q == reqs'[r]
       IN ( /\ StartsNow(r) /\ IsUpperText(s) /\ s # <<>>
            /\ q.raw # None /\ VariantOf(The(q.raw), s) )
          => q = [Started(redeemCodes, Some(s), q.rawProductId)
                    EXCEPT !.raw = q.raw, !.code = q.code]]_vars

\* the stored code "A" was redeemed by a request that sent " a"
C8_Witness ==
  \E r \in Reqs :
    /\ reqs[r].raw = Some(<<" ", "a">>)
    /\ reqs[r].res = Some(Redeemed)
    /\ redeemCodes[The(reqs[r].ref)].code = <<"A">>

\* C9: an otherwise acceptable code with expiresAt = T is rejected as expired
\* when now > T and accepted when now <= T; a code without expiresAt is never
\* rejected as expired.
C9_ExpiryBoundary ==
  [][\A r \in Reqs :
       (Checks(r) /\ reqs[r].ref # None) =>
         LET rec == Deref(reqs[r]) IN
         /\ rec.expiresAt = None => reqs'[r].res # Some(Expired)
         /\ ( /\ rec.expiresAt # None
              /\ rec.isActive
              /\ ~(rec.usageLimit # None /\ rec.usageCount >= The(rec.usageLimit))
              /\ (rec.isMasterCode \/ rec.productId = Some(reqs[r].productId)) )
            => /\ now > The(rec.expiresAt) => reqs'[r].res = Some(Expired)
               /\ now <= The(rec.expiresAt) => AcceptedNow(r)]_vars

\* a code was redeemed at the very instant it expires
C9_Witness ==
  \E r \in Reqs :
    /\ reqs[r].res = Some(Redeemed)
    /\ reqs[r].at = redeemCodes[The(reqs[r].ref)].expiresAt

\* C10: a code that was created without a usage limit is never rejected as
\* usage-limit-reached.
C10_NoLimitIsUnlimited ==
  \A r \in Reqs :
    reqs[r].res = Some(UsageLimitReached) =>
      created[The(reqs[r].ref)].usageLimit # None

\* C11: no two stored records have the same code text, compared without
\* regard to letter case, so a lookup by code has at most one match.
C11_CodeUnique ==
  \A i, j \in DOMAIN redeemCodes :
    i # j => ToUpperCase(redeemCodes[i].code) # ToUpperCase(redeemCodes[j].code)

\* a step of the admin: no redemption moves
AdminStep == \A r \in Reqs : reqs'[r].pc = reqs[r].pc

\* C12: a record is created with usageCount 0, and no request of the admin
\* changes the usageCount of a stored record.
C12_CountNotClientSettable ==
  [][AdminStep =>
       \A id \in DOMAIN redeemCodes' :
         IF id \in DOMAIN redeemCodes
           THEN redeemCodes'[id].usageCount = redeemCodes[id].usageCount
           ELSE redeemCodes'[id].usageCount = 0]_vars

\* C13: every stored record that has a usage limit has usageCount <= usageLimit
\* (stated for the limits that are positive; the others are the matter of C15).
C13_CountWithinLimit ==
  \A id \in DOMAIN redeemCodes :
    (redeemCodes[id].usageLimit # None /\ The(redeemCodes[id].usageLimit) >= 1) =>
      redeemCodes[id].usageCount <= The(redeemCodes[id].usageLimit)

\* C14: every stored record has exactly one scope: it is a master code
\* without a productId, or it is no master code and has a productId.
C14_ExactlyOneScope ==
  \A id \in DOMAIN redeemCodes :
    redeemCodes[id].isMasterCode <=> redeemCodes[id].productId = None

\* C15: no record was created from a body whose usageLimit is zero or
\* negative, and every stored usageLimit is unset or at least 1.
C15_PositiveLimit ==
  /\ \A id \in DOMAIN created :
       created[id].usageLimit = None \/ The(created[id].usageLimit) >= 1
  /\ \A id \in DOMAIN redeemCodes :
       redeemCodes[id].usageLimit = None \/ The(redeemCodes[id].usageLimit) >= 1

\* the six redeem-code management routes
ManagementRoutes ==
  {"list", "listByProduct", "listMaster", "create", "update", "delete"}

\* C16: while the browser has no authenticated admin session, no step changes
\* a redeem code, and every answer of a management route is a 401 without any
\* redeem code in it.
C16_AdminOnly ==
  [][~IsAuthenticated(session) =>
       /\ redeemCodes' = redeemCodes
       /\ (adminRes' # adminRes /\ The(adminRes').route \in ManagementRoutes) =>
            /\ The(adminRes').status = 401
            /\ The(adminRes').data = {}]_vars

\* after signing out, the list of a store that holds codes was asked for and
\* refused
C16_Witness ==
  /\ DOMAIN redeemCodes # {}
  /\ session = EmptySession
  /\ adminRes = AdminResponse("list", 401, {})

\* C17: a redemption whose lookup found the record inactive never reaches the
\* increment, never succeeds and writes nothing; it ends as Inactive, whatever
\* the admin does to the record afterwards.
C17_InactiveRejected ==
  \A r \in Reqs :
    reqs[r].startActive = Some(FALSE) =>
      /\ reqs[r].pc # "increment"
      /\ reqs[r].writes = 0
      /\ reqs[r].pc = "done" => reqs[r].res = Some(Inactive)

\* a code that was created active was switched off, a redemption that started
\* then was rejected as inactive, and the code is switched on again
C17_Witness ==
  \E r \in Reqs :
    /\ reqs[r].res = Some(Inactive)
    /\ created[The(reqs[r].ref)].isActive = None
    /\ The(reqs[r].ref) \in DOMAIN redeemCodes
    /\ redeemCodes[The(reqs[r].ref)].isActive

\* the five rejections of a redemption
Rejections == {NotFound, Inactive, Expired, UsageLimitReached, ScopeMismatch}

\* C18: the five rejections are five different results, each with success =
\* false and a 4xx status, and the one a redemption gets is one that is true
\* of the store: NotFound exactly when no record has the code, and otherwise a
\* reason that holds of the matched record.
C18_DistinctReasons ==
  [][\A r \in Reqs :
       Checks(r) =>
         LET q == reqs'[r]
             known == \E id \in DOMAIN redeemCodes :
                        redeemCodes[id].code = ToUpperCase(q.code)
         IN
         /\ Cardinality({x.message : x \in Rejections}) = 5
         /\ \A x \in Rejections : ~x.success /\ x.status >= 400 /\ x.status <= 499
         /\ q.pc = "done" => The(q.res) \in Rejections
         /\ q.res = Some(NotFound) <=> ~known
         /\ known =>
              LET rec == redeemCodes[The(q.ref)] IN
              /\ q.res = Some(Inactive) => ~rec.isActive
              /\ q.res = Some(Expired) =>
                   rec.expiresAt # None /\ The(rec.expiresAt) < now
              /\ q.res = Some(UsageLimitReached) =>
                   rec.usageLimit # None /\ rec.usageCount >= The(rec.usageLimit)
              /\ q.res = Some(ScopeMismatch) =>
                   ~rec.isMasterCode /\ rec.productId # Some(q.productId)]_vars

\* a used-up code was asked for with the wrong product: both reasons hold and
\* the usage limit is the one reported
C18_Witness ==
  \E r \in Reqs :
    /\ reqs[r].res = Some(UsageLimitReached)
    /\ LET rec == redeemCodes[The(reqs[r].ref)] IN
       /\ rec.usageCount >= The(rec.usageLimit)
       /\ ~rec.isMasterCode
       /\ rec.productId # Some(reqs[r].productId)

\* C19: a successful redemption carries the downloadUrl and the fileName of
\* the matched record's value (none of them when the value has none), and the
\* codeType "master" exactly for a master code, "product" exactly for a
\* product code; no other answer carries them.
C19_SuccessPayload ==
  \A r \in Reqs :
    IF reqs[r].res = Some(Redeemed)
      THEN /\ reqs[r].payload # None
           /\ LET rec == redeemCodes[The(reqs[r].ref)]
                  sent == The(reqs[r].payload)
              IN
              /\ rec.value # None =>
                   /\ sent.downloadUrl = The(rec.value).downloadUrl
                   /\ sent.fileName = The(rec.value).fileName
              /\ rec.value = None =>
                   sent.downloadUrl = None /\ sent.fileName = None
              /\ sent.codeType = "master" <=> rec.isMasterCode
              /\ sent.codeType = "product" <=>
                   (~rec.isMasterCode /\ rec.productId # None)
      ELSE reqs[r].payload = None

\* a master code and a product code were both redeemed
C19_Witness ==
  \E r1, r2 \in Reqs :
    /\ reqs[r1].res = Some(Redeemed)
    /\ The(reqs[r1].payload).codeType = "master"
    /\ The(reqs[r1].payload).downloadUrl = Some("u1")
    /\ reqs[r2].res = Some(Redeemed)
    /\ The(reqs[r2].payload).codeType = "product"

\* C20: every stored code is its own upper-case form, so the lookup of a
\* redemption, which upper-cases what the client sent, can find it.
C20_StoredUpperCase ==
  \A id \in DOMAIN redeemCodes :
    redeemCodes[id].code = ToUpperCase(redeemCodes[id].code)

\* C21: the usageCount of a record is never negative and never decreases
\* while the record is stored, and a new record starts at 0.
C21_CountMonotonic ==
  [][\A id \in DOMAIN redeemCodes' :
       /\ redeemCodes'[id].usageCount >= 0
       /\ IF id \in DOMAIN redeemCodes
            THEN redeemCodes'[id].usageCount >= redeemCodes[id].usageCount
            ELSE redeemCodes'[id].usageCount = 0]_vars

\* C22: the increment of the repository leaves alone a record whose
\* usageCount has reached its (positive) usageLimit.
C22_IncrementRechecks ==
  [][\A id \in DOMAIN redeemCodes \cap DOMAIN redeemCodes' :
       ( /\ redeemCodes[id].usageLimit # None
         /\ The(redeemCodes[id].usageLimit) >= 1
         /\ redeemCodes[id].usageCount >= The(redeemCodes[id].usageLimit) )
       => redeemCodes'[id].usageCount <= redeemCodes[id].usageCount]_vars

\* C23: no step changes the id or the createdAt of a stored record, and an
\* update addressed to an id that is not stored is answered 404 and changes no
\* record.
C23_IdAndCreatedAtImmutable ==
  [][/\ \A id \in DOMAIN redeemCodes \cap DOMAIN redeemCodes' :
          /\ redeemCodes'[id].id = id
          /\ redeemCodes'[id].id = redeemCodes[id].id
          /\ redeemCodes'[id].createdAt = redeemCodes[id].createdAt
     /\ \A id \in 1..MaxCodes, body \in FrameUpdateBodies :
          ( /\ IsAuthenticated(session)
            /\ id \notin DOMAIN redeemCodes
            /\ adminRes' # None /\ The(adminRes').route = "update"
            /\ PutRedeemCode(id, body) )
          => /\ adminRes' = AdminResponse("update", 404, {})
             /\ redeemCodes' = redeemCodes]_vars

\* an update whose body names another id was applied to record 1, and the
\* record still has its id and its createdAt
C23_Witness ==
  /\ adminRes = AdminResponse("update", 200, {1})
  /\ 1 \in DOMAIN redeemCodes
  /\ ~redeemCodes[1].isActive
  /\ redeemCodes[1].id = 1
  /\ redeemCodes[1].createdAt = 0

\* the account exists and its lockedUntil is in the future
LockedNow ==
  /\ admins # None
  /\ The(admins).lockedUntil # None
  /\ The(The(admins).lockedUntil) > now

\* a login request for the account's name
ForAccount(body) == TrimRight(TrimLeft(body.username)) = AdminName

\* a failed password check that brings the failed attempts to five or more
\* sets lockedUntil to 30 minutes after it
LocksAtFive ==
  \A l \in Logins :
    ( /\ LoginFinish(l)
      /\ ~Compare(The(logins[l].password), The(admins).passwordHash)
      /\ The(admins).failedLoginAttempts + 1 >= 5 )
    => /\ The(admins').lockedUntil = Some(now + LockTicks)
       /\ The(admins').lockedUntil # None /\ The(The(admins').lockedUntil) > now

\* C24 as stated: the fifth failed password attempt since the last successful
\* login locks the account for 30 minutes, and every login request for the
\* account that arrives while lockedUntil is in the future is answered 423 and
\* creates no session.
C24_LockedLoginGets423 ==
  [][/\ LocksAtFive
     /\ \A l \in Logins, body \in LoginBodies :
          (LockedNow /\ ForAccount(body) /\ LoginStart(l, body.username, body.password))
          => /\ adminRes' = AdminResponse("login", 423, {})
             /\ session' = session]_vars

\* C24, amended: the fifth failed password attempt since the last successful
\* login locks the account for 30 minutes, and every login request for the
\* account that arrives while lockedUntil is in the future is rejected before
\* the password is looked at and creates no session: with 429 when the rate
\* limiter stops it, else with 400 when the body fails the validation, else
\* with 423.
C24_LockedLoginRejected ==
  [][/\ LocksAtFive
     /\ \A l \in Logins, body \in LoginBodies :
          (LockedNow /\ ForAccount(body) /\ LoginStart(l, body.username, body.password))
          => /\ adminRes' =
                  IF Hit(loginHits, now).count > LoginMax
                    THEN AdminResponse("login", 429, {})
                  ELSE IF ~loginValidation(TrimRight(TrimLeft(body.username)), body.password)
                    THEN AdminResponse("login", 400, {})
                  ELSE AdminResponse("login", 423, {})
             /\ session' = session
             /\ admins' = admins
             /\ logins' = logins]_vars

\* five failed attempts have locked the account, and a login request of the
\* next quarter of an hour was answered 423 and left the browser signed out
C24_Witness ==
  /\ LockedNow
  /\ The(admins).failedLoginAttempts = 5
  /\ The(The(admins).lockedUntil) = LockTicks
  /\ now = 1
  /\ adminRes = AdminResponse("login", 423, {})
  /\ ~IsAuthenticated(session)

\* a login request with the account's name and password
Correct(body) == ForAccount(body) /\ body.password = AdminPassword

\* the account exists, is active and is not locked
OpenNow == admins # None /\ The(admins).isActive /\ ~LockedNow

\* the answer to a request with the right password: a session for the
\* account, no failed attempts and no lock left
SucceedsNow(l) ==
  ( /\ LoginFinish(l)
    /\ logins[l].password = Some(AdminPassword) )
  => /\ adminRes' = AdminResponse("login", 200, {})
     /\ IsAuthenticated(session')
     /\ The(session').username = Some(AdminName)
     /\ The(admins').failedLoginAttempts = 0
     /\ The(admins').lockedUntil = None

\* lockedUntil is set only if failedLoginAttempts >= 5
LockOnlyAtFive ==
  admins # None =>
    (The(admins).lockedUntil # None => The(admins).failedLoginAttempts >= 5)

\* C25 as stated: a login with the right password for an active account that
\* is not locked always succeeds, whatever failed attempts came before: it
\* sets up the session and resets failedLoginAttempts to 0 and lockedUntil to
\* null; and lockedUntil is set only if failedLoginAttempts >= 5.
C25_CorrectLoginSucceeds ==
  [][/\ LockOnlyAtFive /\ LockOnlyAtFive'
     /\ \A l \in Logins :
          /\ SucceedsNow(l)
          /\ \A body \in LoginBodies :
               (OpenNow /\ Correct(body) /\ LoginStart(l, body.username, body.password))
               => logins'[l] = [pc |-> "compare", password |-> Some(AdminPassword)]]_vars

\* C25, amended: a login with the right password for an active account that
\* is not locked succeeds unless the rate limiter answers it 429, whatever
\* failed attempts came before: it sets up the session and resets
\* failedLoginAttempts to 0 and lockedUntil to null; and lockedUntil is set
\* only if failedLoginAttempts >= 5.
C25_CorrectLoginSucceedsUnlessLimited ==
  [][/\ LockOnlyAtFive /\ LockOnlyAtFive'
     /\ \A l \in Logins :
          /\ SucceedsNow(l)
          /\ \A body \in LoginBodies :
               (OpenNow /\ Correct(body) /\ LoginStart(l, body.username, body.password))
               => IF Hit(loginHits, now).count > LoginMax
                    THEN /\ adminRes' = AdminResponse("login", 429, {})
                         /\ UNCHANGED <<logins, admins, session>>
                    ELSE logins'[l] = [pc |-> "compare", password |-> Some(AdminPassword)]]_vars

\* half an hour into the day a login with the right password, the first
\* request of its window, has just succeeded: the browser is signed in and the
\* account has no failed attempts and no lock
C25_Witness ==
  /\ now = LockTicks
  /\ adminRes = AdminResponse("login", 200, {})
  /\ IsAuthenticated(session)
  /\ admins # None
  /\ The(admins).failedLoginAttempts = 0
  /\ The(admins).lockedUntil = None
  /\ loginHits = Some([count |-> 1, resetTime |-> LockTicks + WindowTicks])

\* a request to one of the six redeem-code routes behind requireAdmin; each
\* of them leaves its answer, with its route, in adminRes
ManagementStep ==
  /\ adminRes' # None
  /\ LET route == The(adminRes').route IN
     \/ route = "list" /\ ListRedeemCodes
     \/ route = "listByProduct" /\
          \E productId \in {P1, P2} : ListRedeemCodesByProduct(productId)
     \/ route = "listMaster" /\ ListMasterRedeemCodes
     \/ route = "create" /\ \E body \in AuthBodies : PostRedeemCode(body)
     \/ route = "update" /\
          \E id \in 1..MaxCodes, body \in AuthUpdateBodies : PutRedeemCode(id, body)
     \/ route = "delete" /\ \E id \in 1..MaxCodes : DeleteRedeemCode(id)

\* the stores the middleware may find: the one there is, one without the
\* account, one with the account switched off
AdminStores(adms) ==
  {adms, None} \cup
  (IF adms = None THEN {} ELSE {Some([The(adms) EXCEPT !.isActive = FALSE])})

\* the account named by the session is missing from the store or inactive in it
Gone(sess, adms) ==
  \/ getAdminByUsername(adms, The(The(sess).username)) = None
  \/ ~The(getAdminByUsername(adms, The(The(sess).username))).isActive

\* requireAdmin answers 401 and clears the session when the account of an
\* authenticated session is missing or inactive
RejectsGone(sess, adms, t) ==
  IsAuthenticated(sess) =>
    \A store \in AdminStores(adms) :
      Gone(sess, store) =>
        requireAdmin(sess, store, t) = [status |-> Some(401), session |-> EmptySession]

\* C26: every request to a management route of a browser whose authenticated
\* session names an account that is missing or inactive (401) or locked (423)
\* is rejected, clears the session and leaves the redeem codes alone; a
\* browser without an authenticated session gets 401 from these routes, and
\* only a successful login makes its session authenticated again.
C26_Revalidated ==
  [][/\ (session' # session \/ admins' # admins \/ now' # now) =>
          RejectsGone(session', admins', now')
     /\ (IsAuthenticated(session) /\ LockedNow /\ ManagementStep) =>
          /\ The(adminRes').status = 423
          /\ The(adminRes').data = {}
          /\ session' = EmptySession
          /\ redeemCodes' = redeemCodes
     /\ (~IsAuthenticated(session) /\ ManagementStep) =>
          /\ The(adminRes').status = 401
          /\ The(adminRes').data = {}
          /\ ~IsAuthenticated(session')
          /\ redeemCodes' = redeemCodes
     /\ (~IsAuthenticated(session) /\ IsAuthenticated(session')) =>
          adminRes' = AdminResponse("login", 200, {})]_vars

\* the signed-in admin's account was locked by failed logins, the list of a
\* store that holds codes was refused with 423 and the session is cleared
C26_Witness ==
  /\ LockedNow
  /\ DOMAIN redeemCodes # {}
  /\ session = EmptySession
  /\ adminRes = AdminResponse("list", 423, {})

\* no two items of the cart have the same session and product
OneItemPerProduct(items) ==
  \A i, j \in 1..Len(items) :
    (items[i].sessionId = items[j].sessionId /\ items[i].productId = items[j].productId)
      => i = j

\* C27: no step that changes the cart, be it an add, an update, a removal or
\* a clearing, leaves two items of one session and product in it; an accepted POST /api/cart for a
\* product that is in the session's cart adds the quantity sent to that item
\* (addToCart adds 1 when it is given no quantity) and adds no item, one for a
\* product that is not there appends an item, and either leaves the items of
\* every other session as they were.
C27_OneItemPerProduct ==
  [][/\ cartItems' # cartItems =>
          /\ OneItemPerProduct(cartItems')
          /\ \A key \in CartKeys :
               LET at == Find(cartItems', key[1], key[2])
                   added == addToCart(cartItems', CartItem(key[1], key[2], None))
               IN at # 0 =>
                    /\ Len(added) = Len(cartItems')
                    /\ added[at].quantity = cartItems'[at].quantity + 1
     /\ (cartItems' # cartItems /\ shopRes' = ShopResponse("addToCart", 201, <<>>)) =>
          \A body \in CartBodies :
            LET sessionId == Trim(body.sessionId)
                productId == Trim(body.productId)
                at == Find(cartItems, sessionId, productId)
            IN PostCart(body)
               => /\ \A other \in {S1, S2} \ {sessionId} :
                       ItemsOf(cartItems', other) = ItemsOf(cartItems, other)
                  /\ IF at # 0
                       THEN /\ Len(cartItems') = Len(cartItems)
                            /\ cartItems'[at].quantity =
                                 cartItems[at].quantity + The(body.quantity)
                            /\ \A i \in 1..Len(cartItems) \ {at} :
                                 cartItems'[i] = cartItems[i]
                       ELSE cartItems' =
                              Append(cartItems,
                                     CartItem(sessionId, productId, The(body.quantity)))]_vars

\* both visitors have the product in their carts; the first one's item has
\* the quantity 3, which only an addition to the item that was there gives
C27_Witness ==
  /\ cartItems = <<CartItem(S2, P1, 1), CartItem(S1, P1, 3)>>
  /\ shopRes = ShopResponse("addToCart", 201, <<>>)

\* the items of every session but one
ItemsOfOthers(items, sessionId) ==
  LET Other(item) == item.sessionId # sessionId IN SelectSeq(items, Other)

\* C28: when POST /api/orders answers 201 the order is stored, no item of the
\* order's sessionId is left in the cart and the items of every other session
\* are as they were; storing the order changes no cart; and a request whose
\* body is invalid is answered 400, stores no order and changes no cart.
C28_OrderClearsOwnCart ==
  [][/\ (checkout # None /\ OrderClear) =>
          /\ shopRes' = ShopResponse("createOrder", 201, <<>>)
          /\ orders' = orders
          /\ Len(orders) >= 1
          /\ orders[Len(orders)].sessionId = The(checkout)
          /\ ItemsOf(cartItems', The(checkout)) = <<>>
          /\ ItemsOfOthers(cartItems', The(checkout)) = ItemsOfOthers(cartItems, The(checkout))
          /\ \A other \in {S1, S2} \ {The(checkout)} :
               ItemsOf(cartItems', other) = ItemsOf(cartItems, other)
     /\ \A body \in OrderBodies :
          (checkout = None /\ OrderCreate(body)) =>
            /\ cartItems' = cartItems
            /\ IF OrderParseOk(body)
                 THEN /\ Len(orders') = Len(orders) + 1
                      /\ orders'[Len(orders')].sessionId = The(body.sessionId)
                      /\ orders'[Len(orders')].items = The(body.items)
                      /\ checkout' = body.sessionId
                 ELSE /\ orders' = orders
                      /\ checkout' = None
                      /\ shopRes' = ShopResponse("createOrder", 400, <<>>)]_vars

\* the first visitor's order is stored and answered, the cart holds nothing of
\* theirs, and the second visitor's item is still in it
C28_Witness ==
  /\ shopRes = ShopResponse("createOrder", 201, <<>>)
  /\ checkout = None
  /\ Len(orders) = 1
  /\ orders[1].sessionId = S1
  /\ cartItems = <<CartItem(S2, P1, 1)>>

\* C29: every cart item is an item of a stored product, and GET
\* /api/cart/:sessionId is never answered with a failure.
C29_CartItemsHaveProducts ==
  /\ \A i \in 1..Len(cartItems) : cartItems[i].productId \in products
  /\ \A sessionId \in {S1, S2} : ~getCartItemsThrows(cartItems, products, sessionId)
  /\ shopRes # None => ~(The(shopRes).route = "getCart" /\ The(shopRes).status = 500)

\* the request r carries no code, or no productId, once blanks are trimmed
LacksField(r) == Trim(reqs[r].raw) = <<>> \/ Trim(reqs[r].rawProductId) = <<>>

\* C30: a redemption request without a code or without a productId (blank
\* ones count as missing) is answered 400 without success, has looked up no
\* record and has written nothing; a request that gets as far as the lookup
\* carries both.
C30_BothFieldsRequired ==
  \A r \in Reqs :
    reqs[r].pc # "idle" =>
      IF LacksField(r)
        THEN /\ reqs[r].pc = "done"
             /\ reqs[r].res # None
             /\ The(reqs[r].res).status = 400
             /\ ~The(reqs[r].res).success
             /\ reqs[r].ref = None
             /\ reqs[r].at = None
             /\ reqs[r].writes = 0
             /\ reqs[r].payload = None
        ELSE reqs[r].code # <<>> /\ reqs[r].productId # <<>>

\* a request that named a stored, active master code and no product was
\* answered 400, and the code is still unused
C30_Witness ==
  \E r \in Reqs, id \in DOMAIN redeemCodes :
    /\ reqs[r].raw = Some(redeemCodes[id].code)
    /\ reqs[r].rawProductId = None
    /\ redeemCodes[id].isMasterCode
    /\ redeemCodes[id].isActive
    /\ redeemCodes[id].usageCount = 0
    /\ reqs[r].res = Some(ValidationFailed)

====
